---- MODULE Spec2Model ----
(***************************************************************************)
(* graphql-validation-directives: schema compilation (rule chains copied   *)
(* into extensions), marking of input objects, wrapping of field resolvers *)
(* and the recursive validator run inside a wrapped resolver.              *)
(*                                                                         *)
(* Representation                                                          *)
(*   type reference  a sequence of wrappers ending in a named type,        *)
(*                   <<"NonNull", "List", "String">> is [String]!          *)
(*   value           a tagged record: Null, Str(chars), Lst(items), Obj(f) *)
(*   string          a sequence of one-character strings                   *)
(*   path, message   a sequence of text pieces; concatenation of text is   *)
(*                   concatenation of sequences                            *)
(***************************************************************************)
EXTENDS Integers, Sequences, FiniteSets, TLC

(* ------------------------------ bounds --------------------------------- *)

MaxLen == 2

MaxNest == 3

MaxStack == 4

MaxDirs == 2

(* ------------------------------ values --------------------------------- *)

Null == [k |-> "null"]

Str(chars) == [k |-> "s", s |-> chars]

Lst(items) == [k |-> "l", items |-> items]

\* A number, in tenths: Num(101) is 10.1
Num(tenths) == [k |-> "n", n |-> tenths]

Obj(order, fields) == [k |-> "o", order |-> order, f |-> fields]

IsNullish(value) == value.k = "null"

StringValues == {<<"a">>, <<"b">>}

\* 10, 10.1 and 10.2
NumberValues == {100, 101, 102}

Digit == [i \in 0..9 |-> CASE i = 0 -> "0" [] i = 1 -> "1" [] i = 2 -> "2" [] i = 3 -> "3"
                           [] i = 4 -> "4" [] i = 5 -> "5" [] i = 6 -> "6" [] i = 7 -> "7"
                           [] i = 8 -> "8" [] OTHER -> "9"]

SeqsUpTo(S, n) == UNION {[1..m -> S] : m \in 0..n}

(* ------------------------------ types ---------------------------------- *)

Named(n) == <<n>>

NonNull(t) == <<"NonNull">> \o t

List(t) == <<"List">> \o t

IsNonNull(t) == t[1] = "NonNull"

IsList(t) == t[1] = "List"

OfType(t) == Tail(t)

ScalarNames == {"String", "Float"}

IsInputObjectType(schema, t) == Len(t) = 1 /\ t[1] \in DOMAIN schema.types

unwrapType(type) ==
    LET r1 == IF IsNonNull(type) THEN OfType(type) ELSE type
    IN  IF IsList(r1) THEN OfType(r1) ELSE r1

(* ------------------------- rule families ------------------------------- *)

Has(config, key) == key \in DOMAIN config

NoError == <<>>

NoDepth == 0 - 1

Join(names, sep) ==
    LET RECURSIVE J(_)
        J(i) == IF i > Len(names) THEN <<>>
                ELSE IF i = 1 THEN <<names[1]>> \o J(2)
                ELSE <<sep, names[i]>> \o J(i + 1)
    IN  J(1)

\* `${n}` for a number of tenths: "10" for 100, "10.1" for 101
RECURSIVE IntegerText(_)
IntegerText(i) == IF i < 10 THEN <<Digit[i]>> ELSE IntegerText(i \div 10) \o <<Digit[i % 10]>>

NumberText(tenths) ==
    IntegerText(tenths \div 10)
        \o (IF tenths % 10 = 0 THEN <<>> ELSE <<".", Digit[tenths % 10]>>)

RECURSIVE JSONstringify(_)
JSONstringify(value) ==
    CASE value.k = "null" -> <<"null">>
      [] value.k = "n" -> NumberText(value.n)
      [] value.k = "s" -> <<"\"">> \o value.s \o <<"\"">>
      [] value.k = "l" ->
            LET RECURSIVE Items(_)
                Items(i) == IF i > Len(value.items) THEN <<>>
                            ELSE (IF i = 1 THEN <<>> ELSE <<",">>)
                                 \o JSONstringify(value.items[i]) \o Items(i + 1)
            IN  <<"[">> \o Items(1) \o <<"]">>
      [] OTHER ->
            LET keys == value.order
                RECURSIVE Members(_)
                Members(i) == IF i > Len(keys) THEN <<>>
                              ELSE (IF i = 1 THEN <<>> ELSE <<",">>)
                                   \o <<"\"", keys[i], "\"", ":">>
                                   \o JSONstringify(value.f[keys[i]]) \o Members(i + 1)
            IN  <<"{">> \o Members(1) \o <<"}">>

Slice0(chars, n) == SubSeq(chars, 1, IF n < Len(chars) THEN n ELSE Len(chars))

SliceNeg(chars, n) ==
    IF n = 0 \/ n >= Len(chars) THEN chars
    ELSE SubSeq(chars, Len(chars) - n + 1, Len(chars))

ValidStringDirective_validate(directiveConfig, value) ==
    IF value.k # "s" THEN NoError
    ELSE LET valueString == value.s IN
         IF Has(directiveConfig, "maxLength") /\ Len(valueString) > directiveConfig.maxLength
         THEN <<"Value must be at most ", Digit[directiveConfig.maxLength], " characters">>
         ELSE IF Has(directiveConfig, "minLength") /\ Len(valueString) < directiveConfig.minLength
         THEN <<"Value must be at least ", Digit[directiveConfig.minLength], " characters">>
         ELSE IF Has(directiveConfig, "startsWith")
                 /\ Slice0(valueString, Len(directiveConfig.startsWith)) # directiveConfig.startsWith
         THEN <<"Value must start with '">> \o directiveConfig.startsWith \o <<"'">>
         ELSE IF Has(directiveConfig, "endsWith")
                 /\ SliceNeg(valueString, Len(directiveConfig.endsWith)) # directiveConfig.endsWith
         THEN <<"Value must end with '">> \o directiveConfig.endsWith \o <<"'">>
         ELSE NoError

\* reading a property of null throws a TypeError, which the validator catches
TypeErrorMessage == <<"Cannot read properties of null">>

ListValidationDirective_validate(directiveConfig, value) ==
    IF IsNullish(value)
    THEN (IF Has(directiveConfig, "maxItems") \/ Has(directiveConfig, "minItems")
          THEN TypeErrorMessage ELSE NoError)
    ELSE
    LET valueArray == value.items IN
    IF Has(directiveConfig, "maxItems") /\ Len(valueArray) > directiveConfig.maxItems
    THEN <<"Value must be at most ", Digit[directiveConfig.maxItems], " items">>
    ELSE IF Has(directiveConfig, "minItems") /\ Len(valueArray) < directiveConfig.minItems
    THEN <<"Value must be at least ", Digit[directiveConfig.minItems], " items">>
    ELSE NoError

ValidListDirective_validate(directiveConfig, value) ==
    IF IsNullish(value)
    THEN (IF Has(directiveConfig, "maxItems") \/ Has(directiveConfig, "minItems")
             \/ (Has(directiveConfig, "uniqueItems") /\ directiveConfig.uniqueItems)
          THEN TypeErrorMessage ELSE NoError)
    ELSE
    LET valueArray == value.items IN
    IF Has(directiveConfig, "maxItems") /\ Len(valueArray) > directiveConfig.maxItems
    THEN <<"Value must be at most ", Digit[directiveConfig.maxItems], " items">>
    ELSE IF Has(directiveConfig, "minItems") /\ Len(valueArray) < directiveConfig.minItems
    THEN <<"Value must be at least ", Digit[directiveConfig.minItems], " items">>
    ELSE IF Has(directiveConfig, "uniqueItems") /\ directiveConfig.uniqueItems
            /\ \E i, j \in 1..Len(valueArray) :
                  i # j /\ JSONstringify(valueArray[i]) = JSONstringify(valueArray[j])
    THEN <<"Value must contain unique items">>
    ELSE NoError

FieldValues(names, valueObj) ==
    [i \in 1..Len(names) |->
        IF names[i] \in DOMAIN valueObj.f /\ ~IsNullish(valueObj.f[names[i]])
        THEN JSONstringify(valueObj.f[names[i]])
        ELSE <<>>]

ValidObjectDirective_validate(directiveConfig, value) ==
    IF IsNullish(value)
    THEN (IF (Has(directiveConfig, "equalFields") /\ Len(directiveConfig.equalFields) > 1)
             \/ (Has(directiveConfig, "nonEqualFields") /\ Len(directiveConfig.nonEqualFields) > 1)
          THEN TypeErrorMessage ELSE NoError)
    ELSE
    IF Has(directiveConfig, "equalFields") /\ Len(directiveConfig.equalFields) > 1
       /\ LET fieldValues == FieldValues(directiveConfig.equalFields, value)
          IN  \E i \in 1..Len(fieldValues) :
                  fieldValues[i] # <<>> /\ fieldValues[i] # fieldValues[1]
    THEN <<"Fields ">> \o Join(directiveConfig.equalFields, " and ") \o <<" must be equal">>
    ELSE IF Has(directiveConfig, "nonEqualFields") /\ Len(directiveConfig.nonEqualFields) > 1
            /\ LET fieldValues == FieldValues(directiveConfig.nonEqualFields, value)
               IN  \E i \in 1..Len(fieldValues) :
                      fieldValues[i] # <<>> /\ \E j \in 1..(i - 1) : fieldValues[j] = fieldValues[i]
    THEN <<"Fields ">> \o Join(directiveConfig.nonEqualFields, " and ")
         \o <<" must not be equal">>
    ELSE NoError

\* ValidationDirective ("validation"): the length rules for String and ID, the
\* bounds for Int and Float; a value is a number exactly when its type is Int or Float.
ValidationDirective_validate(directiveConfig, value) ==
    IF value.k = "s"
    THEN IF Has(directiveConfig, "maxLength") /\ Len(value.s) > directiveConfig.maxLength
         THEN <<"Value must be at most ", Digit[directiveConfig.maxLength], " characters">>
         ELSE IF Has(directiveConfig, "minLength") /\ Len(value.s) < directiveConfig.minLength
         THEN <<"Value must be at least ", Digit[directiveConfig.minLength], " characters">>
         ELSE NoError
    ELSE IF value.k = "n"
    THEN IF Has(directiveConfig, "min") /\ Has(directiveConfig, "max")
            /\ value.n > directiveConfig.max
         THEN <<"Value must not be greater than ">> \o NumberText(directiveConfig.max)
         ELSE IF Has(directiveConfig, "min") /\ value.n < directiveConfig.min
         THEN <<"Value must be less than ">> \o NumberText(directiveConfig.min)
         ELSE NoError
    ELSE NoError

\* ValidFloatDirective ("validFloat"): max, then min
ValidFloatDirective_validate(directiveConfig, value) ==
    IF value.k # "n" THEN NoError
    ELSE IF Has(directiveConfig, "max") /\ value.n > directiveConfig.max
    THEN <<"Value must not be greater than ">> \o NumberText(directiveConfig.max)
    ELSE IF Has(directiveConfig, "min") /\ value.n < directiveConfig.min
    THEN <<"Value must not be less than ">> \o NumberText(directiveConfig.min)
    ELSE NoError

Families ==
    {"validString", "listValidation", "validList", "validObject", "validation", "validFloat"}

Target(name) ==
    CASE name = "validString" -> "scalar"
      [] name = "listValidation" -> "list"
      [] name = "validList" -> "list"
      [] name = "validObject" -> "object"
      [] OTHER -> "scalar"

ListValidationDirective_getListDepth(directiveConfig) ==
    IF Has(directiveConfig, "listDepth") THEN directiveConfig.listDepth ELSE NoDepth

ValidListDirective_getListDepth(directiveConfig) ==
    IF Has(directiveConfig, "listDepth") THEN directiveConfig.listDepth ELSE 0

getListDepth(name, directiveConfig) ==
    CASE name = "listValidation" -> ListValidationDirective_getListDepth(directiveConfig)
      [] name = "validList" -> ValidListDirective_getListDepth(directiveConfig)
      [] OTHER -> 0

validate(fn, value) ==
    CASE fn.name = "validString" -> ValidStringDirective_validate(fn.config, value)
      [] fn.name = "listValidation" -> ListValidationDirective_validate(fn.config, value)
      [] fn.name = "validList" -> ValidListDirective_validate(fn.config, value)
      [] fn.name = "validation" -> ValidationDirective_validate(fn.config, value)
      [] fn.name = "validFloat" -> ValidFloatDirective_validate(fn.config, value)
      [] OTHER -> ValidObjectDirective_validate(fn.config, value)

(* ------------------------------ state ---------------------------------- *)

VARIABLES
    schema,          \* the executable schema given to the library (type definitions, resolver)
    applied,         \* directive names whose applyDirectiveToSchema has run, in order
    inputTypeExt,    \* extensions of each input object type: validations, validate
    inputFieldExt,   \* extensions.validations of each input object field
    argumentExt,     \* extensions.argumentValidations of the object field
    resolve,         \* field.resolve: "none", "original" or "wrapped"
    added,           \* addValidationToSchema has returned
    threw,           \* addValidationToSchema failed (call stack exhausted)
    call             \* the resolution in progress / last finished

vars == <<schema, applied, inputTypeExt, inputFieldExt, argumentExt, resolve, added, threw, call>>

(* ----------------------------- validator ------------------------------- *)

ValidationError(message, path) == [message |-> message, path |-> path]

\* Variant: the first rule that throws ends the reduction.
RunValidationsStopsAtFirstThrow(validations, value, path) ==
    LET RECURSIVE Reduce(_)
        Reduce(i) ==
            IF i > Len(validations) THEN <<>>
            ELSE LET e == validate(validations[i].fn, value)
                 IN  IF e = NoError THEN Reduce(i + 1) ELSE <<ValidationError(e, path)>>
    IN  Reduce(1)

\* validations.filter(...).reduce(try { fn(...) } catch (e) { [...errors, new ValidationError] })
RunValidations(validations, value, path) ==
    LET RECURSIVE Reduce(_)
        Reduce(i) ==
            IF i > Len(validations) THEN <<>>
            ELSE LET e == validate(validations[i].fn, value)
                 IN  (IF e = NoError THEN <<>> ELSE <<ValidationError(e, path)>>)
                     \o Reduce(i + 1)
    IN  Reduce(1)

\* Variant: the scalar rules of the chain are run on the list as well.
ListValidationsWithScalarRules(validations, listDepth) ==
    SelectSeq(validations, LAMBDA validation :
                  \/ validation.target = "scalar"
                  \/ validation.target = "list" /\ validation.listDepth = listDepth)

\* Variant: the list rules of every depth, whatever the current depth.
ListValidationsOfAnyDepth(validations, listDepth) ==
    SelectSeq(validations, LAMBDA validation : validation.target = "list")

ListValidations(validations, listDepth) ==
    SelectSeq(validations, LAMBDA validation :
                  validation.target = "list" /\ validation.listDepth = listDepth)

\* Variant: the type's own rules come before those of the incoming chain.
ObjectValidationsTypeFirst(validations, typeName) ==
    SelectSeq((IF inputTypeExt[typeName].has
               THEN inputTypeExt[typeName].validations ELSE <<>>) \o validations,
              LAMBDA validation : validation.target = "object")

ObjectValidations(validations, typeName) ==
    SelectSeq(validations \o (IF inputTypeExt[typeName].has
                              THEN inputTypeExt[typeName].validations ELSE <<>>),
              LAMBDA validation : validation.target = "object")

ScalarValidations(validations) ==
    SelectSeq(validations, LAMBDA validation : validation.target = "scalar")

FieldValidations(typeName, fieldName) ==
    IF inputFieldExt[typeName][fieldName].has
    THEN inputFieldExt[typeName][fieldName].validations ELSE <<>>

\* Variant: a field's lists are counted on from the depth of the enclosing object.
FieldListDepthContinued(listDepth) == listDepth + 1

\* The recursion into a field passes no listDepth: the parameter's default, 0, applies
\* whatever the depth of the enclosing object.
FieldListDepth(listDepth) == 0

\* Variant: items are numbered from 1.
ItemPathFromOne(path, index) == path \o <<"[", Digit[index + 1], "]">>

ItemPath(path, index) == path \o <<"[", Digit[index], "]">>

FieldPath(path, fieldName) == path \o <<".", fieldName>>

FindArgument(argumentName) ==
    LET i == CHOOSE i \in 1..Len(schema.args) : schema.args[i].name = argumentName
    IN  schema.args[i]

ArgumentValidations(argumentName) ==
    IF argumentExt.has /\ argumentName \in DOMAIN argumentExt.byArg
    THEN argumentExt.byArg[argumentName] ELSE <<>>

\* Variant: the items' errors are kept after the list's own.
ListBranchKeepsItemErrors(listErrors, itemErrors) == listErrors \o itemErrors

\* Variant: the items' errors are collected last item first.
ListBranchLastItemFirst(listErrors, itemErrors) ==
    IF Len(listErrors) > 0 THEN listErrors
    ELSE [k \in 1..Len(itemErrors) |-> itemErrors[Len(itemErrors) + 1 - k]]

\* if (listErrors.length) return listErrors; otherwise the items' errors
ListBranch(listErrors, itemErrors) ==
    IF Len(listErrors) > 0 THEN listErrors ELSE itemErrors

\* Variant: the fields' errors are kept after the object's own.
ObjectBranchKeepsFieldErrors(objectErrors, marked, fieldErrors) ==
    objectErrors \o (IF marked THEN fieldErrors ELSE <<>>)

\* if (objectErrors.length) return objectErrors; the fields' errors only when the
\* type is marked (extensions.validate === true); otherwise []
ObjectBranch(objectErrors, marked, fieldErrors) ==
    IF Len(objectErrors) > 0 THEN objectErrors
    ELSE IF marked THEN fieldErrors
    ELSE <<>>

RECURSIVE validateRecursive(_, _, _, _, _)
validateValue(path, value, type, validations, listDepth) ==
    LET valueType == IF IsNonNull(type) THEN OfType(type) ELSE type IN
    IF IsList(valueType) THEN
        LET listErrors == RunValidations(ListValidations(validations, listDepth), value, path)
            RECURSIVE Items(_)
            Items(i) == IF i > Len(value.items) THEN <<>>
                        ELSE validateRecursive(ItemPath(path, i - 1), value.items[i],
                                               OfType(valueType), validations, listDepth + 1)
                             \o Items(i + 1)
        IN  ListBranch(listErrors, Items(1))
    ELSE IF IsInputObjectType(schema, valueType) THEN
        LET typeName == valueType[1]
            objectErrors == RunValidations(ObjectValidations(validations, typeName), value, path)
            fields == schema.types[typeName].fields
            RECURSIVE Fields(_)
            Fields(i) == IF i > Len(fields) THEN <<>>
                         ELSE validateRecursive(FieldPath(path, fields[i].name),
                                                value.f[fields[i].name], fields[i].type,
                                                FieldValidations(typeName, fields[i].name),
                                                FieldListDepth(listDepth))
                              \o Fields(i + 1)
        IN  ObjectBranch(objectErrors, inputTypeExt[typeName].validate, Fields(1))
    ELSE RunValidations(ScalarValidations(validations), value, path)

\* Variant: the rules of the chain are run on a null value.
validateRecursiveRunsRulesOnNull(path, value, type, validations, listDepth) ==
    IF IsNullish(value) THEN RunValidations(validations, value, path)
    ELSE validateValue(path, value, type, validations, listDepth)

validateRecursive(path, value, type, validations, listDepth) ==
    IF IsNullish(value) THEN <<>>
    ELSE validateValue(path, value, type, validations, listDepth)

\* The calls of validateRecursive made while validating one value, the first included:
\* one record per call, with its arguments. `descend` is the set of input object
\* types whose fields are visited once the object's own rules pass.
RECURSIVE Walk(_, _, _, _, _, _)
Walk(descend, path, value, type, validations, listDepth) ==
    LET this == [path |-> path, value |-> value, type |-> type,
                 validations |-> validations, listDepth |-> listDepth]
        valueType == IF IsNonNull(type) THEN OfType(type) ELSE type
    IN  IF IsNullish(value) THEN {this}
        ELSE IF IsList(valueType) THEN
            IF Len(RunValidations(ListValidations(validations, listDepth), value, path)) > 0
            THEN {this}
            ELSE {this} \cup UNION {Walk(descend, ItemPath(path, i - 1), value.items[i],
                                         OfType(valueType), validations, listDepth + 1) :
                                       i \in 1..Len(value.items)}
        ELSE IF IsInputObjectType(schema, valueType) THEN
            LET typeName == valueType[1]
                fields == schema.types[typeName].fields
            IN  IF Len(RunValidations(ObjectValidations(validations, typeName), value, path)) > 0
                   \/ typeName \notin descend
                THEN {this}
                ELSE {this} \cup UNION {Walk(descend, FieldPath(path, fields[i].name),
                                             value.f[fields[i].name], fields[i].type,
                                             FieldValidations(typeName, fields[i].name), 0) :
                                           i \in 1..Len(fields)}
        ELSE {this}

MarkedTypes == {t \in DOMAIN inputTypeExt : inputTypeExt[t].validate}

\* The calls of validateRecursive made by validateFieldArguments(args).
Calls(args) ==
    UNION {Walk(MarkedTypes, <<args[i].name>>, args[i].value, FindArgument(args[i].name).type,
                ArgumentValidations(args[i].name), 0) : i \in 1..Len(args)}

ERROR_MESSAGE == "One or more validation errors were encountered"

ERROR_CODE == "VALIDATION_ERROR"

\* Variant: only the first error is carried.
AggregateValidationErrorKeepsFirst(errors) ==
    [name |-> "AggregateValidationError",
     message |-> ERROR_MESSAGE,
     extensions |-> [code |-> ERROR_CODE,
                     validationErrors |->
                         <<[message |-> errors[1].message, path |-> errors[1].path]>>]]

AggregateValidationError(errors) ==
    [name |-> "AggregateValidationError",
     message |-> ERROR_MESSAGE,
     extensions |-> [code |-> ERROR_CODE,
                     validationErrors |->
                         [i \in 1..Len(errors) |->
                             [message |-> errors[i].message, path |-> errors[i].path]]]]

\* Variant: the reduction stops at the first argument that has errors.
validateFieldArgumentsStopsAtFirst(args) ==
    LET RECURSIVE Reduce(_)
        Reduce(i) ==
            IF i > Len(args) THEN <<>>
            ELSE LET errs == validateRecursive(<<args[i].name>>, args[i].value,
                                               FindArgument(args[i].name).type,
                                               ArgumentValidations(args[i].name), 0)
                 IN  IF Len(errs) > 0 THEN errs ELSE Reduce(i + 1)
    IN  Reduce(1)

\* Variant: the reduction runs over field.args, taking each argument's value from args.
validateFieldArgumentsInDeclaredOrder(args) ==
    LET supplied(i) == \E j \in 1..Len(args) : args[j].name = schema.args[i].name
        valueOf(i) == args[CHOOSE j \in 1..Len(args) : args[j].name = schema.args[i].name].value
        RECURSIVE Reduce(_)
        Reduce(i) ==
            IF i > Len(schema.args) THEN <<>>
            ELSE (IF supplied(i)
                  THEN validateRecursive(<<schema.args[i].name>>, valueOf(i), schema.args[i].type,
                                         ArgumentValidations(schema.args[i].name), 0)
                  ELSE <<>>)
                 \o Reduce(i + 1)
    IN  Reduce(1)

\* The errors collected over Object.entries(args); a non-empty result is thrown
\* as an AggregateValidationError.
validateFieldArguments(args) ==
    LET RECURSIVE Reduce(_)
        Reduce(i) ==
            IF i > Len(args) THEN <<>>
            ELSE validateRecursive(<<args[i].name>>, args[i].value,
                                   FindArgument(args[i].name).type,
                                   ArgumentValidations(args[i].name), 0)
                 \o Reduce(i + 1)
    IN  Reduce(1)

(* ------------------------------ compiler ------------------------------- *)

getDirective(node, name) ==
    LET occurrences == SelectSeq(node.dirs, LAMBDA d : d.name = name)
    IN  [i \in 1..Len(occurrences) |-> occurrences[i].config]

Reverse(seq) == [i \in 1..Len(seq) |-> seq[Len(seq) + 1 - i]]

\* Variant: the new elements take the place of the array's.
UnshiftEachOntoEmpty(array, elements) == Reverse(elements)

\* forEach(x => array.unshift(x)): each element is put in front of the ones before it
UnshiftEach(array, elements) == Reverse(elements) \o array

InputObjectFieldMapper(name, fieldConfig, ext) ==
    LET directiveConfigs == getDirective(fieldConfig, name)
        added_ == [i \in 1..Len(directiveConfigs) |->
                     [target |-> Target(name),
                      listDepth |-> getListDepth(name, directiveConfigs[i]),
                      fn |-> [name |-> name, config |-> directiveConfigs[i]]]]
    IN  IF Len(directiveConfigs) = 0 THEN ext
        ELSE [has |-> TRUE,
              validations |-> UnshiftEach(IF ext.has THEN ext.validations ELSE <<>>, added_)]

InputObjectTypeMapper(name, inputObjectType, ext) ==
    LET directiveConfigs == getDirective(inputObjectType, name)
        added_ == [i \in 1..Len(directiveConfigs) |->
                     [target |-> Target(name),
                      listDepth |-> 0,
                      fn |-> [name |-> name, config |-> directiveConfigs[i]]]]
    IN  [ext EXCEPT !.has = TRUE,
                    !.validations = UnshiftEach(IF ext.has THEN ext.validations ELSE <<>>,
                                                added_)]

ObjectFieldMapper(name, args, ext) ==
    LET validationsByArgumentName ==
            [a \in {args[i].name : i \in 1..Len(args)} |->
                LET argumentConfig == CHOOSE c \in {args[i] : i \in 1..Len(args)} : c.name = a
                    directiveConfigs == getDirective(argumentConfig, name)
                IN  [i \in 1..Len(directiveConfigs) |->
                        [target |-> Target(name),
                         listDepth |-> getListDepth(name, directiveConfigs[i]),
                         fn |-> [name |-> name, config |-> directiveConfigs[i]]]]]
        old == IF ext.has THEN ext.byArg ELSE <<>>
    IN  IF DOMAIN validationsByArgumentName = {} THEN ext
        ELSE [has |-> TRUE,
              byArg |-> [a \in DOMAIN old \cup DOMAIN validationsByArgumentName |->
                            UnshiftEach(IF a \in DOMAIN old THEN old[a] ELSE <<>>,
                                        IF a \in DOMAIN validationsByArgumentName
                                        THEN validationsByArgumentName[a] ELSE <<>>)]]

(* ------------------------ marking and wrapping ------------------------- *)

\* The result of one call: the value returned, the types on which "validate" was
\* defined during the call, and whether the call stack was exhausted (RangeError).
\* Variant: a field of the type's own type is followed like any other.
IsOwnTypeNever(fieldType, inputObjectType) == FALSE

\* fieldType === inputObjectType
IsOwnType(fieldType, inputObjectType) == fieldType = Named(inputObjectType)

RECURSIVE markValidateInputObjectRecursive(_, _, _)
markValidateInputObjectRecursive(sch, fieldExt, frame) ==
    LET inputObjectType == frame.type
        fields == sch.types[inputObjectType].fields
        RECURSIVE Some(_)
        Some(i) ==
            IF i > Len(fields) THEN [validate |-> FALSE, marked |-> {}, overflow |-> FALSE]
            ELSE LET fieldType == unwrapType(fields[i].type)
                     r == IF IsOwnType(fieldType, inputObjectType)
                          THEN [validate |-> FALSE, marked |-> {}, overflow |-> FALSE]
                          ELSE IF IsInputObjectType(sch, fieldType)
                          THEN markValidateInputObjectRecursive(
                                   sch, fieldExt, [type |-> fieldType[1], depth |-> frame.depth + 1])
                          ELSE [validate |-> fieldExt[inputObjectType][fields[i].name].has,
                                marked |-> {}, overflow |-> FALSE]
                 IN  IF r.overflow \/ r.validate THEN r
                     ELSE LET rest == Some(i + 1)
                          IN  [rest EXCEPT !.marked = r.marked \cup rest.marked]
        some == Some(1)
    IN  IF frame.depth > MaxStack THEN [validate |-> FALSE, marked |-> {}, overflow |-> TRUE]
        ELSE IF some.overflow THEN some
        ELSE IF some.validate
        THEN [some EXCEPT !.marked = some.marked \cup {inputObjectType}]
        ELSE some

\* inputObjectTypes.forEach(markValidateInputObjectRecursive), in type-map order
MarkAll(sch, fieldExt) ==
    LET order == sch.typeOrder
        RECURSIVE ForEach(_)
        ForEach(i) ==
            IF i > Len(order) THEN [marked |-> {}, overflow |-> FALSE]
            ELSE LET r == markValidateInputObjectRecursive(
                              sch, fieldExt, [type |-> order[i], depth |-> 1])
                 IN  IF r.overflow THEN [marked |-> r.marked, overflow |-> TRUE]
                     ELSE LET rest == ForEach(i + 1)
                          IN  [marked |-> r.marked \cup rest.marked, overflow |-> rest.overflow]
    IN  ForEach(1)

\* The filter of wrapValidatedFieldResolvers.
HasValidatedArguments(sch, argExt, typeExt) ==
    \/ argExt.has
    \/ \E i \in 1..Len(sch.args) :
          LET argType == unwrapType(sch.args[i].type)
          IN  IsInputObjectType(sch, argType) /\ typeExt[argType[1]].validate

wrapValidatedFieldResolvers(sch, argExt, typeExt, originalFieldResolver) ==
    IF HasValidatedArguments(sch, argExt, typeExt) /\ originalFieldResolver = "original"
    THEN "wrapped"
    ELSE originalFieldResolver

(* ------------------------------ resolution ----------------------------- *)

\* A wrapper that delegates before it looks at the validation result.
WrappedResolverDelegatesFirst(request, originalOutcome) ==
    LET errors == validateFieldArguments(request.args)
        log == <<[request |-> request, outcome |-> originalOutcome]>>
    IN  IF Len(errors) > 0
        THEN [outcome |-> [kind |-> "throw", error |-> AggregateValidationError(errors)],
              log |-> log]
        ELSE [outcome |-> originalOutcome, log |-> log]

\* A wrapper that turns a failure of the original resolver into a null result.
WrappedResolverSwallowsFailure(request, originalOutcome) ==
    LET errors == validateFieldArguments(request.args)
    IN  IF Len(errors) > 0
        THEN [outcome |-> [kind |-> "throw", error |-> AggregateValidationError(errors)],
              log |-> <<>>]
        ELSE [outcome |-> IF originalOutcome.kind = "throw"
                          THEN [kind |-> "return", value |-> FALSE] ELSE originalOutcome,
              log |-> <<[request |-> request, outcome |-> originalOutcome]>>]

\* field.resolve = function (source, args, context, info) { validateFieldArguments(...);
\*                 return originalFieldResolver.apply(this, [source, args, context, info]) }
WrappedResolver(request, originalOutcome) ==
    LET errors == validateFieldArguments(request.args)
    IN  IF Len(errors) > 0
        THEN [outcome |-> [kind |-> "throw", error |-> AggregateValidationError(errors)],
              log |-> <<>>]
        ELSE [outcome |-> originalOutcome,
              log |-> <<[request |-> request, outcome |-> originalOutcome]>>]

\* The field's own resolve function; what it returns or throws is the caller's to choose.
OriginalResolver(request, originalOutcome) ==
    [outcome |-> originalOutcome, log |-> <<[request |-> request, outcome |-> originalOutcome]>>]

\* graphql's default field resolver, used when the field defines no resolve function
DefaultResolver(request) ==
    [outcome |-> [kind |-> "default"], log |-> <<>>]

OriginalOutcomes == {[kind |-> "return", value |-> TRUE],
                     [kind |-> "throw", error |-> [name |-> "Error", message |-> "resolver failed"]]}

(* ------------------------- schemas and inputs -------------------------- *)

D(name, config) == [name |-> name, config |-> config]

Node(name, type, dirs) == [name |-> name, type |-> type, dirs |-> dirs]

InputType(dirs, fields) == [dirs |-> dirs, fields |-> fields]

String == Named("String")

startsWithA == D("validString", [startsWith |-> <<"a">>])

endsWithA == D("validString", [endsWith |-> <<"a">>])

minItemsAt0 == D("listValidation", [minItems |-> 2, listDepth |-> 0])

minItemsAt1 == D("listValidation", [minItems |-> 2, listDepth |-> 1])

minItemsNoDepth == D("listValidation", [minItems |-> 2])

validListMinItems == D("validList", [minItems |-> 2])

equalFields12 == D("validObject", [equalFields |-> <<"field1", "field2">>])

equalFields21 == D("validObject", [equalFields |-> <<"field2", "field1">>])

DirectiveNames(dirs) == {dirs[i].name : i \in 1..Len(dirs)}

SchemaOf(types, typeOrder, args, hasResolver) ==
    [types |-> types, typeOrder |-> typeOrder, args |-> args, hasResolver |-> hasResolver,
     directives |->
        UNION ({DirectiveNames(args[i].dirs) : i \in 1..Len(args)}
               \cup {DirectiveNames(types[t].dirs) : t \in DOMAIN types}
               \cup UNION {{DirectiveNames(types[t].fields[i].dirs) :
                               i \in 1..Len(types[t].fields)} : t \in DOMAIN types})]

NoTypes == [t \in {} |-> InputType(<<>>, <<>>)]

\* testQuery(arg: String @...): Boolean!
ScalarArgumentSchemas ==
    {SchemaOf(NoTypes, <<>>, <<Node("arg", String, dirs)>>, r) :
        dirs \in SeqsUpTo({startsWithA, endsWithA}, MaxDirs), r \in BOOLEAN}

\* testQuery(arg: [String] @...): Boolean!
ListArgumentSchemas ==
    {SchemaOf(NoTypes, <<>>, <<Node("arg", List(String), dirs)>>, TRUE) :
        dirs \in SeqsUpTo({startsWithA, minItemsAt0, minItemsNoDepth}, MaxDirs)
                  \cup {<<validListMinItems>>, <<validListMinItems, startsWithA>>}}

\* testQuery(arg: [[String!]!] @...): Boolean!
NestedListArgumentSchemas ==
    {SchemaOf(NoTypes, <<>>,
              <<Node("arg", List(NonNull(List(NonNull(String)))), dirs)>>, TRUE) :
        dirs \in {<<minItemsAt1>>, <<minItemsAt0, minItemsAt1>>, <<minItemsAt1, startsWithA>>,
                   <<startsWithA, endsWithA>>}}

\* input TestQueryInput @... { field1: String @..., field2: String }
\* testQuery(arg: TestQueryInput! @...): Boolean!
InputObjectSchemas ==
    {SchemaOf([TestQueryInput |->
                  InputType(tdirs, <<Node("field1", String, fdirs),
                                     Node("field2", String, <<>>)>>)],
              <<"TestQueryInput">>,
              <<Node("arg", NonNull(Named("TestQueryInput")), adirs)>>, r) :
        tdirs \in {<<>>, <<equalFields12>>, <<equalFields21>>},
        fdirs \in {<<>>, <<startsWithA>>, <<startsWithA, endsWithA>>},
        adirs \in {<<>>, <<equalFields12>>, <<equalFields12, equalFields21>>},
        r \in BOOLEAN}

\* input TestQuerySubInput @... { field1: String @..., field2: String }
\* input TestQueryInput { sub: TestQuerySubInput @... }
NestedInputObjectSchemas ==
    {SchemaOf([TestQuerySubInput |->
                  InputType(tdirs, <<Node("field1", String, fdirs),
                                     Node("field2", String, <<>>)>>),
               TestQueryInput |->
                  InputType(<<>>, <<Node("sub", Named("TestQuerySubInput"), sdirs)>>)],
              order,
              <<Node("arg", NonNull(Named("TestQueryInput")), <<>>)>>, TRUE) :
        tdirs \in {<<>>, <<equalFields12>>},
        fdirs \in {<<>>, <<startsWithA>>},
        sdirs \in {<<>>, <<equalFields21>>},
        order \in {<<"TestQuerySubInput", "TestQueryInput">>,
                   <<"TestQueryInput", "TestQuerySubInput">>}}

\* input TestQuerySubInput { sub: TestQuerySubInput, field1: String! @... }
\* input TestQueryInput { sub: TestQuerySubInput! }
SelfReferencingSchemas ==
    {SchemaOf([TestQuerySubInput |->
                  InputType(<<>>, <<Node("sub", Named("TestQuerySubInput"), <<>>),
                                    Node("field1", NonNull(String), fdirs)>>),
               TestQueryInput |->
                  InputType(<<>>, <<Node("sub", NonNull(Named("TestQuerySubInput")), <<>>)>>)],
              <<"TestQuerySubInput", "TestQueryInput">>,
              <<Node("arg", NonNull(Named("TestQueryInput")), <<>>)>>, TRUE) :
        fdirs \in {<<>>, <<startsWithA>>}}

\* input TestQueryInput { field: [String] @... }
\* testQuery(arg: TestQueryInput!): Boolean!
ListFieldSchemas ==
    {SchemaOf([TestQueryInput |-> InputType(<<>>, <<Node("field", List(String), fdirs)>>)],
              <<"TestQueryInput">>,
              <<Node("arg", NonNull(Named("TestQueryInput")), <<>>)>>, TRUE) :
        fdirs \in {<<startsWithA>>, <<minItemsAt0>>, <<validListMinItems, startsWithA>>}}

\* testQuery(arg: String @..., arg2: String @...): Boolean!
TwoArgumentSchemas ==
    {SchemaOf(NoTypes, <<>>, <<Node("arg", String, dirs), Node("arg2", String, dirs2)>>, TRUE) :
        dirs \in {<<>>, <<startsWithA>>}, dirs2 \in {<<>>, <<startsWithA>>, <<endsWithA>>}}

\* testQuery(arg: Float! @...): Boolean!, the bounds at 10.1
NumberArgumentSchemas ==
    {SchemaOf(NoTypes, <<>>, <<Node("arg", NonNull(Named("Float")), <<D(name, config)>>)>>, TRUE) :
        name \in {"validation", "validFloat"},
        config \in {[max |-> 101], [min |-> 101], [min |-> 101, max |-> 101]}}

\* input TestQueryInput { field1: String @..., sub: TestQuerySubInput }  (either order)
\* input TestQuerySubInput { parent: TestQueryInput }
\* testQuery(arg: TestQueryInput!): Boolean!
MutualReferenceSchemas ==
    {SchemaOf([TestQueryInput |->
                  InputType(<<>>,
                            IF ruleFirst
                            THEN <<Node("field1", String, fdirs),
                                   Node("sub", Named("TestQuerySubInput"), <<>>)>>
                            ELSE <<Node("sub", Named("TestQuerySubInput"), <<>>),
                                   Node("field1", String, fdirs)>>),
               TestQuerySubInput |->
                  InputType(<<>>, <<Node("parent", Named("TestQueryInput"), <<>>)>>)],
              order,
              <<Node("arg", NonNull(Named("TestQueryInput")), <<>>)>>, TRUE) :
        fdirs \in {<<>>, <<startsWithA>>},
        ruleFirst \in BOOLEAN,
        order \in {<<"TestQuerySubInput", "TestQueryInput">>,
                   <<"TestQueryInput", "TestQuerySubInput">>}}

\* The field types through which TestQueryInput refers to TestQuerySubInput.
WrappedTypes(type) ==
    {NonNull(type), List(type), List(NonNull(type)), NonNull(List(NonNull(type))),
     List(NonNull(List(NonNull(type))))}

\* input TestQuerySubInput { field1: String! @validString(startsWith: "a") }
\* input TestQueryInput { sub: TestQuerySubInput! }, or [TestQuerySubInput], ...
\* testQuery(arg: TestQueryInput!): Boolean!
WrappedObjectFieldSchemas ==
    {SchemaOf([TestQuerySubInput |->
                  InputType(<<>>, <<Node("field1", NonNull(String), <<startsWithA>>)>>),
               TestQueryInput |-> InputType(<<>>, <<Node("sub", type, <<>>)>>)],
              <<"TestQuerySubInput", "TestQueryInput">>,
              <<Node("arg", NonNull(Named("TestQueryInput")), <<>>)>>, TRUE) :
        type \in WrappedTypes(Named("TestQuerySubInput"))}

maxItemsAt1 == D("listValidation", [maxItems |-> 1, listDepth |-> 1])

\* input TestQueryInput { field: [String!] @listValidation(minItems: 2, listDepth: 0) }
\* testQuery(arg: [TestQueryInput!] @...): Boolean!
ListOfObjectsSchemas ==
    {SchemaOf([TestQueryInput |->
                  InputType(<<>>, <<Node("field", List(NonNull(String)), <<minItemsAt0>>)>>)],
              <<"TestQueryInput">>,
              <<Node("arg", List(NonNull(Named("TestQueryInput"))), adirs)>>, TRUE) :
        adirs \in {<<maxItemsAt1, startsWithA>>}}

\* testQuery(arg: String): Boolean!, in a schema that declares @validString and
\* uses it nowhere
UnvalidatedFieldSchemas ==
    {[SchemaOf(NoTypes, <<>>, <<Node("arg", String, <<>>)>>, TRUE)
         EXCEPT !.directives = {"validString"}]}

Schemas ==
    ScalarArgumentSchemas \cup ListArgumentSchemas \cup NestedListArgumentSchemas
    \cup InputObjectSchemas \cup NestedInputObjectSchemas \cup SelfReferencingSchemas
    \cup ListFieldSchemas \cup TwoArgumentSchemas \cup UnvalidatedFieldSchemas
    \cup NumberArgumentSchemas \cup MutualReferenceSchemas \cup WrappedObjectFieldSchemas
    \cup ListOfObjectsSchemas

\* The values the engine can coerce for a type: null only where the type allows it,
\* lists of at most MaxLen items, objects nested at most `nest` deep.
RECURSIVE ValuesOf(_, _, _)
ValuesOf(sch, type, nest) ==
    IF IsNonNull(type) THEN ValuesOf(sch, OfType(type), nest) \ {Null}
    ELSE IF IsList(type)
    THEN {Null} \cup {Lst(items) : items \in SeqsUpTo(ValuesOf(sch, OfType(type), nest), MaxLen)}
    ELSE IF IsInputObjectType(sch, type)
    THEN IF nest = 0 THEN {Null}
         ELSE LET fields == sch.types[type[1]].fields
                  order == [i \in 1..Len(fields) |-> fields[i].name]
                  RECURSIVE Members(_)
                  Members(i) ==
                      IF i > Len(fields) THEN {<<>>}
                      ELSE {(fields[i].name :> v) @@ rest :
                               v \in ValuesOf(sch, fields[i].type, nest - 1),
                               rest \in Members(i + 1)}
              IN  {Null} \cup {Obj(order, f) : f \in Members(1)}
    ELSE IF type = Named("Float") THEN {Null} \cup {Num(n) : n \in NumberValues}
    ELSE {Null} \cup {Str(chars) : chars \in StringValues}

\* The args maps a resolver can be called with: a value for each argument supplied,
\* every required argument supplied, the keys in any order.
ArgsOf(sch) ==
    LET RECURSIVE Entries(_)
        Entries(left) ==
            {<<>>} \cup
            UNION {{<<[name |-> sch.args[i].name, value |-> v]>> \o rest :
                       v \in ValuesOf(sch, sch.args[i].type, MaxNest),
                       rest \in Entries(left \ {i})} : i \in left}
        required == {sch.args[i].name : i \in {j \in 1..Len(sch.args) : IsNonNull(sch.args[j].type)}}
    IN  {e \in Entries(1..Len(sch.args)) : required \subseteq {e[i].name : i \in 1..Len(e)}}

(* ------------------------------ actions -------------------------------- *)

Idle == [phase |-> "idle"]

Init ==
    /\ schema \in Schemas
    /\ applied = <<>>
    /\ inputTypeExt = [t \in DOMAIN schema.types |->
                          [has |-> FALSE, validations |-> <<>>, validate |-> FALSE]]
    /\ inputFieldExt = [t \in DOMAIN schema.types |->
                           [n \in {schema.types[t].fields[i].name :
                                      i \in 1..Len(schema.types[t].fields)} |->
                               [has |-> FALSE, validations |-> <<>>]]]
    /\ argumentExt = [has |-> FALSE, byArg |-> <<>>]
    /\ resolve = IF schema.hasResolver THEN "original" ELSE "none"
    /\ added = FALSE
    /\ threw = FALSE
    /\ call = Idle

FieldOf(t, n) ==
    CHOOSE f \in {schema.types[t].fields[i] : i \in 1..Len(schema.types[t].fields)} : f.name = n

\* directive.applyDirectiveToSchema(schema): mapSchema visits every input object
\* field, every input object type and every object field.
ApplyDirectiveToSchema(name) ==
    /\ ~added /\ ~threw
    /\ name \in schema.directives
    /\ \A i \in 1..Len(applied) : applied[i] # name
    /\ applied' = Append(applied, name)
    /\ inputFieldExt' = [t \in DOMAIN inputFieldExt |->
                            [n \in DOMAIN inputFieldExt[t] |->
                                InputObjectFieldMapper(name, FieldOf(t, n), inputFieldExt[t][n])]]
    /\ inputTypeExt' = [t \in DOMAIN inputTypeExt |->
                           InputObjectTypeMapper(name, schema.types[t], inputTypeExt[t])]
    /\ argumentExt' = ObjectFieldMapper(name, schema.args, argumentExt)
    /\ UNCHANGED <<schema, resolve, added, threw, call>>

AddValidationToSchema ==
    /\ ~added /\ ~threw
    /\ LET m == MarkAll(schema, inputFieldExt)
           typeExt == [t \in DOMAIN inputTypeExt |->
                          [inputTypeExt[t] EXCEPT !.validate = (t \in m.marked)]]
       IN  /\ inputTypeExt' = typeExt
           /\ threw' = m.overflow
           /\ added' = ~m.overflow
           /\ resolve' = IF m.overflow THEN resolve
                         ELSE wrapValidatedFieldResolvers(schema, argumentExt, typeExt, resolve)
    /\ UNCHANGED <<schema, applied, inputFieldExt, argumentExt, call>>

\* The engine (or a caller) invokes field.resolve(source, args, context, info).
Resolve ==
    /\ added
    /\ call.phase = "idle"
    /\ \E args \in ArgsOf(schema), originalOutcome \in OriginalOutcomes :
       LET request == [source |-> "source", args |-> args, context |-> "context", info |-> "info"]
           r == CASE resolve = "wrapped" -> WrappedResolver(request, originalOutcome)
                  [] resolve = "original" -> OriginalResolver(request, originalOutcome)
                  [] OTHER -> DefaultResolver(request)
       IN  call' = [phase |-> "done", request |-> request, outcome |-> r.outcome, log |-> r.log]
    /\ UNCHANGED <<schema, applied, inputTypeExt, inputFieldExt, argumentExt, resolve, added, threw>>

\* The resolution is over; the next one starts from a clean slate.
Return ==
    /\ call.phase = "done"
    /\ call' = Idle
    /\ UNCHANGED <<schema, applied, inputTypeExt, inputFieldExt, argumentExt, resolve, added, threw>>

Next ==
    \/ \E name \in Families : ApplyDirectiveToSchema(name)
    \/ AddValidationToSchema
    \/ Resolve
    \/ Return

Spec == Init /\ [][Next]_vars

(* ------------------------------- claims -------------------------------- *)

Done == call.phase = "done"

WrappedCall == Done /\ resolve = "wrapped"

IsAggregateValidationError(outcome) ==
    outcome.kind = "throw" /\ outcome.error.name = "AggregateValidationError"

\* C1: whenever validating the arguments of a wrapped resolver's invocation yields at
\* least one violation, the invocation ends in an AggregateValidationError and the
\* original resolver has not been invoked.
C1_ViolationBlocksResolver ==
    (WrappedCall /\ Len(validateFieldArguments(call.request.args)) > 0)
        => (IsAggregateValidationError(call.outcome) /\ call.log = <<>>)

C1_Witness ==
    /\ WrappedCall
    /\ Len(validateFieldArguments(call.request.args)) > 0
    /\ IsAggregateValidationError(call.outcome)

\* C2: whenever the arguments of a wrapped resolver's invocation violate no rule, the
\* original resolver has been invoked exactly once, with the very source, args,
\* context and info of the invocation, and the wrapper's outcome is the original
\* resolver's own outcome, returned value or failure alike.
C2_ValidCallDelegates ==
    (WrappedCall /\ Len(validateFieldArguments(call.request.args)) = 0)
        => /\ Len(call.log) = 1
           /\ call.log[1].request = call.request
           /\ call.outcome = call.log[1].outcome
           /\ call.outcome \in OriginalOutcomes

C2_Witness ==
    /\ WrappedCall
    /\ \E i \in 1..Len(call.request.args) :
          /\ Len(ArgumentValidations(call.request.args[i].name)) > 0
          /\ ~IsNullish(call.request.args[i].value)
    /\ Len(validateFieldArguments(call.request.args)) = 0
    /\ call.outcome.kind = "throw"
    /\ Len(call.log) = 1

ReportedErrors ==
    IF IsAggregateValidationError(call.outcome)
    THEN call.outcome.error.extensions.validationErrors
    ELSE <<>>

InSeq(x, seq) == \E i \in 1..Len(seq) : seq[i] = x

\* A type reference stripped of all its modifiers.
NamedTypeOf(type) == <<type[Len(type)]>>

FieldTypes(T) ==
    {NamedTypeOf(schema.types[T].fields[i].type)[1] : i \in 1..Len(schema.types[T].fields)}
        \cap DOMAIN schema.types

RECURSIVE ReachableFrom(_)
ReachableFrom(S) ==
    LET next == S \cup UNION {FieldTypes(T) : T \in S}
    IN  IF next = S THEN S ELSE ReachableFrom(next)

TypeDeclaresRule(T) ==
    \/ inputTypeExt[T].has /\ Len(inputTypeExt[T].validations) > 0
    \/ \E n \in DOMAIN inputFieldExt[T] :
          inputFieldExt[T][n].has /\ Len(inputFieldExt[T][n].validations) > 0

\* The argument carries a direct rule (its own chain) or a transitive one (a rule
\* on, or in, an input object type its type leads to).
ArgumentCarriesRule(arg) ==
    \/ Len(ArgumentValidations(arg.name)) > 0
    \/ /\ IsInputObjectType(schema, NamedTypeOf(arg.type))
       /\ \E T \in ReachableFrom({NamedTypeOf(arg.type)[1]}) : TypeDeclaresRule(T)

\* C3: once addValidationToSchema has returned, the field is wrapped if one of its
\* arguments carries a direct or transitive rule, whether or not the field defines a
\* resolve function of its own.
C3_ValidatedFieldIsWrapped ==
    (added /\ \E i \in 1..Len(schema.args) : ArgumentCarriesRule(schema.args[i]))
        => resolve = "wrapped"

\* The calls a validator makes that visits the fields of every input object whose
\* own rules pass, marked or not.
ReferenceCalls(args) ==
    UNION {Walk(DOMAIN schema.types, <<args[i].name>>, args[i].value,
                FindArgument(args[i].name).type, ArgumentValidations(args[i].name), 0) :
              i \in 1..Len(args)}

IsObjectNode(c) ==
    /\ ~IsNullish(c.value)
    /\ IsInputObjectType(schema, IF IsNonNull(c.type) THEN OfType(c.type) ELSE c.type)

IsListNode(c) ==
    /\ ~IsNullish(c.value)
    /\ IsList(IF IsNonNull(c.type) THEN OfType(c.type) ELSE c.type)

IsScalarNode(c) == ~IsNullish(c.value) /\ ~IsObjectNode(c) /\ ~IsListNode(c)

\* The errors of the rules of `rules` that fail on the value, in the order of `rules`.
RECURSIVE Failing(_, _, _)
Failing(rules, value, path) ==
    IF rules = <<>> THEN <<>>
    ELSE (IF validate(Head(rules).fn, value) # NoError
          THEN <<[message |-> validate(Head(rules).fn, value), path |-> path]>> ELSE <<>>)
         \o Failing(Tail(rules), value, path)

TypeObjectRules(c) ==
    LET T == NamedTypeOf(c.type)[1]
    IN  SelectSeq(IF inputTypeExt[T].has THEN inputTypeExt[T].validations ELSE <<>>,
                  LAMBDA r : r.target = "object")

\* C4: in a wrapped resolver's invocation, at every non-null input object value the
\* validation leads to (through arguments, list items and fields whose enclosing
\* values pass their own rules), each failing object rule declared on the value's type
\* is reported at the value's path, and the original resolver is not run.
C4_TypeRuleRunsOnNestedValue ==
    WrappedCall =>
        \A c \in ReferenceCalls(call.request.args) :
            (IsObjectNode(c) /\ Len(Failing(TypeObjectRules(c), c.value, c.path)) > 0)
                => /\ \A e \in {Failing(TypeObjectRules(c), c.value, c.path)[i] :
                                   i \in 1..Len(Failing(TypeObjectRules(c), c.value, c.path))} :
                          InSeq(e, ReportedErrors)
                   /\ call.log = <<>>

\* The argument or input object field a path leads to.
RECURSIVE NodeAt(_, _, _)
NodeAt(node, path, i) ==
    IF i > Len(path) THEN node
    ELSE IF path[i] = "."
    THEN LET fields == schema.types[NamedTypeOf(node.type)[1]].fields
             j == CHOOSE j \in 1..Len(fields) : fields[j].name = path[i + 1]
         IN  NodeAt(fields[j], path, i + 2)
    ELSE NodeAt(node, path, i + 3)

DeclaringNode(path) == NodeAt(FindArgument(path[1]), path, 2)

\* The scalar rules declared at a node whose directive has been applied, as
\* declared: first declared first.
DeclaredScalarRules(node) ==
    LET ds == SelectSeq(node.dirs, LAMBDA d : Target(d.name) = "scalar" /\ InSeq(d.name, applied))
    IN  [i \in 1..Len(ds) |-> [fn |-> ds[i]]]

\* C5: in a wrapped resolver's invocation, the violations validation returns for a
\* scalar leaf are exactly those of the failing rules declared for it, one each, in
\* the order of their declaration.
C5_LeafViolationsInDeclarationOrder ==
    WrappedCall =>
        \A c \in Calls(call.request.args) :
            IsScalarNode(c)
                => validateRecursive(c.path, c.value, c.type, c.validations, c.listDepth)
                   = Failing(DeclaredScalarRules(DeclaringNode(c.path)), c.value, c.path)

IsPrefix(p, q) == Len(p) <= Len(q) /\ SubSeq(q, 1, Len(p)) = p

\* The reported violations at a path or beneath it, in the order reported.
ErrorsUnder(path) == SelectSeq(ReportedErrors, LAMBDA e : IsPrefix(path, e.path))

ErrorsAt(path) == SelectSeq(ReportedErrors, LAMBDA e : e.path = path)

ResultOf(c) == validateRecursive(c.path, c.value, c.type, c.validations, c.listDepth)

ItemType(c) == OfType(IF IsNonNull(c.type) THEN OfType(c.type) ELSE c.type)

\* What validating item i (from 1) of the list of call c yields on its own.
ItemResult(c, i) ==
    validateRecursive(c.path \o <<"[", Digit[i - 1], "]">>, c.value.items[i],
                      ItemType(c), c.validations, c.listDepth + 1)

RECURSIVE ItemResults(_, _)
ItemResults(c, i) ==
    IF i > Len(c.value.items) THEN <<>> ELSE ItemResult(c, i) \o ItemResults(c, i + 1)

FailingListRules(c) ==
    Failing(SelectSeq(c.validations,
                      LAMBDA r : r.target = "list" /\ r.listDepth = c.listDepth),
            c.value, c.path)

\* C6: in a wrapped resolver's invocation, at every list validation visits: if a
\* list rule of the current depth fails, the violations reported at the list or
\* beneath it are exactly those list-rule violations; otherwise they are the
\* violations of its items, each item's own and all of them, in item order.
C6_ListRuleFailureSuppressesItems ==
    WrappedCall =>
        \A c \in Calls(call.request.args) :
            IsListNode(c)
                => IF Len(FailingListRules(c)) > 0
                   THEN ErrorsUnder(c.path) = FailingListRules(c)
                   ELSE ErrorsUnder(c.path) = ItemResults(c, 1)

C6_Witness ==
    /\ WrappedCall
    /\ \E c \in Calls(call.request.args) :
          /\ IsListNode(c)
          /\ Len(FailingListRules(c)) > 0
          /\ \E i \in 1..Len(c.value.items) : Len(ItemResult(c, i)) > 0
    /\ \E c \in Calls(call.request.args) :
          /\ IsListNode(c)
          /\ Len(FailingListRules(c)) = 0
          /\ Len(c.value.items) = 2
          /\ \A i \in 1..2 : Len(ItemResult(c, i)) > 0

FailingObjectRules(c) ==
    Failing(SelectSeq(c.validations, LAMBDA r : r.target = "object") \o TypeObjectRules(c),
            c.value, c.path)

FieldResult(c, i) ==
    LET T == NamedTypeOf(c.type)[1]
        field == schema.types[T].fields[i]
    IN  validateRecursive(c.path \o <<".", field.name>>, c.value.f[field.name], field.type,
                          FieldValidations(T, field.name), 0)

\* C7: in a wrapped resolver's invocation, at every input object validation visits:
\* if an object rule fails, the violations reported at the object or beneath it are
\* exactly the object-rule violations; if the object rules pass and the type is not
\* marked as needing validation, nothing is reported at or beneath the object and
\* validation visits none of its fields.
C7_ObjectRuleFailureSuppressesFields ==
    WrappedCall =>
        \A c \in Calls(call.request.args) :
            IsObjectNode(c)
                => IF Len(FailingObjectRules(c)) > 0
                   THEN ErrorsUnder(c.path) = FailingObjectRules(c)
                   ELSE ~inputTypeExt[NamedTypeOf(c.type)[1]].validate
                           => /\ ErrorsUnder(c.path) = <<>>
                              /\ \A c2 \in Calls(call.request.args) :
                                     IsPrefix(c.path, c2.path) => c2 = c

C7_Witness ==
    /\ WrappedCall
    /\ \E c \in Calls(call.request.args) :
          /\ IsObjectNode(c)
          /\ Len(FailingObjectRules(c)) > 0
          /\ \E i \in 1..Len(schema.types[NamedTypeOf(c.type)[1]].fields) :
                Len(FieldResult(c, i)) > 0

\* C8: in a wrapped resolver's invocation, no violation is reported at or beneath a
\* null value validation visits, and validation visits nothing beneath it.
C8_NullYieldsNoViolation ==
    WrappedCall =>
        \A c \in Calls(call.request.args) :
            IsNullish(c.value)
                => /\ ErrorsUnder(c.path) = <<>>
                   /\ ResultOf(c) = <<>>
                   /\ \A c2 \in Calls(call.request.args) : IsPrefix(c.path, c2.path) => c2 = c

C8_Witness ==
    /\ WrappedCall
    /\ \E c \in Calls(call.request.args) :
          /\ IsNullish(c.value)
          /\ \E i \in 1..Len(c.validations) :
                validate(c.validations[i].fn, c.value) # NoError
    /\ \E c \in Calls(call.request.args) : IsNullish(c.value) /\ Len(c.path) > 1

\* The nesting level of the list at a path below the argument or field it belongs
\* to: the number of item steps after the last field step.
RECURSIVE NestingLevel(_)
NestingLevel(path) ==
    IF Len(path) <= 1 \/ path[Len(path)] # "]" THEN 0
    ELSE 1 + NestingLevel(SubSeq(path, 1, Len(path) - 3))

\* C9: in a wrapped resolver's invocation, the violations reported at a list
\* validation visits are exactly those of the failing list rules of its chain whose
\* depth equals the list's nesting level below its argument or field, one per rule;
\* a list rule of another depth contributes nothing there.
C9_ListRuleRunsAtItsDepthOnly ==
    WrappedCall =>
        \A c \in Calls(call.request.args) :
            IsListNode(c)
                => ErrorsAt(c.path)
                   = Failing(SelectSeq(c.validations,
                                       LAMBDA r : r.target = "list"
                                                  /\ r.listDepth = NestingLevel(c.path)),
                             c.value, c.path)

MinItemsMessage == validate(minItemsAt1, Lst(<<Str(<<"a">>)>>))

\* minItems = 2 at depth 1 on a list of lists, called with [["a"],["b"]]: two
\* violations, at arg[0] and arg[1], none at arg.
C9_Witness ==
    /\ WrappedCall
    /\ Len(call.request.args) = 1
    /\ FindArgument("arg").dirs = <<minItemsAt1>>
    /\ call.request.args[1].value = Lst(<<Lst(<<Str(<<"a">>)>>), Lst(<<Str(<<"b">>)>>)>>)
    /\ ReportedErrors = <<[message |-> MinItemsMessage, path |-> <<"arg", "[", "0", "]">>],
                          [message |-> MinItemsMessage, path |-> <<"arg", "[", "1", "]">>]>>

IsOutermostListNode(c) == IsListNode(c) /\ NestingLevel(c.path) = 0

AllChains ==
    {argumentExt.byArg[a] : a \in (IF argumentExt.has THEN DOMAIN argumentExt.byArg ELSE {})}
        \cup {inputTypeExt[T].validations : T \in DOMAIN inputTypeExt}
        \cup UNION {{inputFieldExt[T][n].validations : n \in DOMAIN inputFieldExt[T]} :
                       T \in DOMAIN inputFieldExt}

\* C10: a list rule declared without a listDepth attribute is compiled with depth 0,
\* and in a wrapped resolver's invocation each such rule that fails on the outermost
\* list of its argument or field is reported at that list's path.
C10_ListDepthDefaultsToZero ==
    /\ \A chain \in AllChains : \A i \in 1..Len(chain) :
           (chain[i].target = "list" /\ ~Has(chain[i].fn.config, "listDepth"))
               => chain[i].listDepth = 0
    /\ WrappedCall =>
           \A c \in Calls(call.request.args) :
               IsOutermostListNode(c)
                   => \A i \in 1..Len(c.validations) :
                          (/\ c.validations[i].target = "list"
                           /\ ~Has(c.validations[i].fn.config, "listDepth")
                           /\ validate(c.validations[i].fn, c.value) # NoError)
                              => InSeq([message |-> validate(c.validations[i].fn, c.value),
                                        path |-> c.path], ReportedErrors)

Missing == [k |-> "missing"]

\* The value a path denotes in an args map: the named argument, then item i for
\* each `[i]` and field n for each `.n`; Missing when the path denotes nothing.
RECURSIVE ValueAtFrom(_, _, _)
ValueAtFrom(value, path, i) ==
    IF i > Len(path) THEN value
    ELSE IF /\ path[i] = "[" /\ i + 2 <= Len(path) /\ path[i + 2] = "]" /\ value.k = "l"
            /\ \E n \in 0..(Len(value.items) - 1) : Digit[n] = path[i + 1]
    THEN ValueAtFrom(value.items[1 + CHOOSE n \in 0..(Len(value.items) - 1) :
                                        Digit[n] = path[i + 1]],
                     path, i + 3)
    ELSE IF /\ path[i] = "." /\ i + 1 <= Len(path) /\ value.k = "o"
            /\ path[i + 1] \in DOMAIN value.f
    THEN ValueAtFrom(value.f[path[i + 1]], path, i + 2)
    ELSE Missing

ValueAt(args, path) ==
    IF path # <<>> /\ \E j \in 1..Len(args) : args[j].name = path[1]
    THEN ValueAtFrom(args[CHOOSE j \in 1..Len(args) : args[j].name = path[1]].value, path, 2)
    ELSE Missing

\* The chain that applies at a path: that of the argument or field it leads to.
ChainAt(path) ==
    IF Len(path) = 1 \/ \A i \in 1..Len(path) : path[i] # "."
    THEN ArgumentValidations(path[1])
    ELSE LET k == CHOOSE k \in 1..Len(path) :
                      path[k] = "." /\ \A j \in (k + 1)..Len(path) : path[j] # "."
             owner == NodeAt(FindArgument(path[1]), SubSeq(path, 1, k - 1), 2)
         IN  FieldValidations(NamedTypeOf(owner.type)[1], path[k + 1])

\* The rules that can fail on the value at a path: those of the chain at the path
\* (and of the value's type, for an object) that target the kind of the value.
RulesAt(path, v) ==
    LET target == CASE v.k = "l" -> "list" [] v.k = "o" -> "object" [] OTHER -> "scalar"
        ofType == IF v.k = "o"
                  THEN TypeObjectRules([type |-> NodeAt(FindArgument(path[1]), path, 2).type])
                  ELSE <<>>
    IN  SelectSeq(ChainAt(path) \o ofType, LAMBDA r : r.target = target)

\* C11: in a wrapped resolver's invocation, the path of every reported violation
\* denotes, read as the argument name followed by `[i]` per list index and `.name`
\* per field, the very value in the args map on which a rule of that position fails
\* with the reported message; the same holds of the path of every visited value.
C11_PathDenotesTheValue ==
    WrappedCall =>
        /\ \A c \in Calls(call.request.args) :
               ValueAt(call.request.args, c.path) = c.value
        /\ \A k \in 1..Len(ReportedErrors) :
               LET e == ReportedErrors[k]
                   v == ValueAt(call.request.args, e.path)
               IN  /\ v \notin {Missing, Null}
                   /\ \E i \in 1..Len(RulesAt(e.path, v)) :
                          validate(RulesAt(e.path, v)[i].fn, v) = e.message

HasErrorAt(path) == \E k \in 1..Len(ReportedErrors) : ReportedErrors[k].path = path

\* A violation at arg.field[0]: item 0 of list field `field` of object argument arg.
C11_Witness ==
    /\ WrappedCall
    /\ HasErrorAt(<<"arg", ".", "field", "[", "0", "]">>)
    /\ ~HasErrorAt(<<"arg", ".", "field", "[", "1", "]">>)
    /\ ValueAt(call.request.args, <<"arg", ".", "field", "[", "1", "]">>) = Str(<<"a">>)

\* A violation at arg[1] alone, item 1 of list argument arg.
C11_WitnessItem ==
    /\ WrappedCall
    /\ HasErrorAt(<<"arg", "[", "1", "]">>) /\ ~HasErrorAt(<<"arg", "[", "0", "]">>)

\* A violation at arg.field1, field field1 of object argument arg.
C11_WitnessField == WrappedCall /\ HasErrorAt(<<"arg", ".", "field1">>)

\* What validating one entry of an args map yields on its own.
ErrorsOfArgument(entry) ==
    validateRecursive(<<entry.name>>, entry.value, FindArgument(entry.name).type,
                      ArgumentValidations(entry.name), 0)

\* C12: in a wrapped resolver's invocation, the violations reported for each supplied
\* argument are exactly those the argument yields on its own, whatever the other
\* arguments yield.
C12_EveryArgumentIsValidated ==
    WrappedCall =>
        \A j \in 1..Len(call.request.args) :
            ErrorsUnder(<<call.request.args[j].name>>) = ErrorsOfArgument(call.request.args[j])

C12_Witness ==
    /\ WrappedCall
    /\ Len(call.request.args) = 2
    /\ \A j \in 1..2 : Len(ErrorsOfArgument(call.request.args[j])) > 0
    /\ IsAggregateValidationError(call.outcome)
    /\ Len(ReportedErrors) = 2

RECURSIVE ConcatErrors(_, _)
ConcatErrors(entries, i) ==
    IF i > Len(entries) THEN <<>>
    ELSE ErrorsOfArgument(entries[i]) \o ConcatErrors(entries, i + 1)

\* The supplied entries of an args map in the order the field declares its arguments.
InDeclaredOrder(args) ==
    LET supplied == SelectSeq(schema.args,
                              LAMBDA a : \E j \in 1..Len(args) : args[j].name = a.name)
    IN  [i \in 1..Len(supplied) |->
            args[CHOOSE j \in 1..Len(args) : args[j].name = supplied[i].name]]

\* C13 (as stated): in a wrapped resolver's invocation, the reported violations are
\* grouped by argument in the order the field declares its arguments, whatever the
\* key order of the args map.
C13_ViolationsInDeclaredArgumentOrder ==
    WrappedCall =>
        ReportedErrors = ConcatErrors(InDeclaredOrder(call.request.args), 1)

\* C13 (amended): in a wrapped resolver's invocation, the reported violations are
\* grouped by argument in the key order of the args map the resolver was given; they
\* follow the declared order when the map's keys do.
C13_ViolationsInArgsKeyOrder ==
    WrappedCall =>
        /\ ReportedErrors = ConcatErrors(call.request.args, 1)
        /\ call.request.args = InDeclaredOrder(call.request.args)
               => ReportedErrors = ConcatErrors(InDeclaredOrder(call.request.args), 1)

\* Keys in the order arg2, arg, both arguments failing: arg2's violation comes first.
C13_Witness ==
    /\ WrappedCall
    /\ Len(call.request.args) = 2
    /\ call.request.args[1].name = "arg2" /\ call.request.args[2].name = "arg"
    /\ Len(ReportedErrors) = 2
    /\ ReportedErrors[1].path = <<"arg2">> /\ ReportedErrors[2].path = <<"arg">>

\* C14: a wrapped resolver's invocation whose arguments yield violations ends in one
\* thrown AggregateValidationError with code VALIDATION_ERROR whose validationErrors
\* has one {message, path} entry per violation the validator returned, in the same
\* order, and returns nothing of the original resolver.
C14_AggregateCarriesEveryViolation ==
    (WrappedCall /\ Len(validateFieldArguments(call.request.args)) > 0)
        => LET errors == validateFieldArguments(call.request.args)
           IN  /\ DOMAIN call.outcome = {"kind", "error"}
               /\ call.outcome.kind = "throw"
               /\ call.outcome.error.name = "AggregateValidationError"
               /\ call.outcome.error.message = "One or more validation errors were encountered"
               /\ call.outcome.error.extensions.code = "VALIDATION_ERROR"
               /\ Len(call.outcome.error.extensions.validationErrors) = Len(errors)
               /\ \A i \in 1..Len(errors) :
                      call.outcome.error.extensions.validationErrors[i]
                          = [message |-> errors[i].message, path |-> errors[i].path]

\* The argument's rule and the type's rule both fail: two entries at `arg`.
C14_Witness ==
    /\ WrappedCall
    /\ "TestQueryInput" \in DOMAIN schema.types
    /\ Len(validateFieldArguments(call.request.args)) = 2
    /\ Len(ReportedErrors) = 2
    /\ \A i \in 1..2 : ReportedErrors[i].path = <<"arg">>
    /\ ReportedErrors[1].message # ReportedErrors[2].message

FailingScalarRules(c) ==
    Failing(SelectSeq(c.validations, LAMBDA r : r.target = "scalar"), c.value, c.path)

\* The violations of the rules that throw at a visited value: the rules run there are
\* those targeting the kind of the value.
ThrownAt(c) ==
    IF IsListNode(c) THEN FailingListRules(c)
    ELSE IF IsObjectNode(c) THEN FailingObjectRules(c)
    ELSE FailingScalarRules(c)

\* C15: in a wrapped resolver's invocation, every rule that throws at a visited list,
\* input object or scalar yields exactly one reported violation with the value's path
\* and the thrown message, and the invocation ends either in the
\* AggregateValidationError or, the original resolver having been invoked, in the
\* original resolver's own outcome.
C15_ThrownRuleBecomesViolation ==
    WrappedCall =>
        /\ \A c \in Calls(call.request.args) :
               ~IsNullish(c.value) => ErrorsAt(c.path) = ThrownAt(c)
        /\ \/ IsAggregateValidationError(call.outcome) /\ call.log = <<>>
           \/ Len(call.log) = 1 /\ call.outcome = call.log[1].outcome

\* A list rule throws at one list and a scalar rule throws at an item of another.
C15_Witness ==
    /\ WrappedCall
    /\ IsAggregateValidationError(call.outcome)
    /\ \E c \in Calls(call.request.args) : IsListNode(c) /\ Len(ThrownAt(c)) > 0
    /\ \E c \in Calls(call.request.args) : IsScalarNode(c) /\ Len(ThrownAt(c)) > 0

\* C16: once addValidationToSchema has returned, a field none of whose arguments
\* carries a direct or transitive rule has the resolve function it had before.
C16_UnvalidatedFieldUntouched ==
    (added /\ ~\E i \in 1..Len(schema.args) : ArgumentCarriesRule(schema.args[i]))
        => resolve = (IF schema.hasResolver THEN "original" ELSE "none")

DirectlySelfReferential == \E T \in DOMAIN schema.types : T \in FieldTypes(T)

MutuallyRecursive ==
    \E T \in DOMAIN schema.types, U \in DOMAIN schema.types :
        /\ T # U
        /\ U \in ReachableFrom(FieldTypes(T))
        /\ T \in ReachableFrom(FieldTypes(U))

\* C17: with an input object type that refers to itself directly (and no cycle through
\* another type), marking never exhausts the stack, and in a wrapped resolver's
\* invocation every failing scalar rule of a field is reported at the field's path
\* at whatever nesting level of the self-nested value the field sits.
C17_SelfReferenceTerminatesAndValidates ==
    (DirectlySelfReferential /\ ~MutuallyRecursive)
        => /\ ~threw
           /\ WrappedCall =>
                  \A c \in ReferenceCalls(call.request.args) :
                      IsScalarNode(c)
                          => \A i \in 1..Len(FailingScalarRules(c)) :
                                 InSeq(FailingScalarRules(c)[i], ReportedErrors)

\* arg: {sub: {sub: {field1: "b"}, field1: "a"}}: one violation, at arg.sub.sub.field1
C17_Witness ==
    /\ WrappedCall
    /\ DirectlySelfReferential
    /\ Len(ReportedErrors) = 1
    /\ ReportedErrors[1].path = <<"arg", ".", "sub", ".", "sub", ".", "field1">>
    /\ ValueAt(call.request.args, <<"arg", ".", "sub", ".", "field1">>) = Str(<<"a">>)

\* C18: in a wrapped resolver's invocation, the violations reported at a visited input
\* object are those of the failing object rules of the incoming chain followed by
\* those of the failing object rules of the object's type.
C18_ChainRulesThenTypeRules ==
    WrappedCall =>
        \A c \in Calls(call.request.args) :
            IsObjectNode(c)
                => ErrorsAt(c.path)
                   = Failing(SelectSeq(c.validations, LAMBDA r : r.target = "object"),
                             c.value, c.path)
                     \o Failing(TypeObjectRules(c), c.value, c.path)

\* The argument's rule and the type's rule both fail: the argument's violation first.
C18_Witness ==
    /\ WrappedCall
    /\ "TestQueryInput" \in DOMAIN schema.types
    /\ FindArgument("arg").dirs = <<equalFields12>>
    /\ schema.types["TestQueryInput"].dirs = <<equalFields21>>
    /\ ReportedErrors
       = <<[message |-> <<"Fields ", "field1", " and ", "field2", " must be equal">>,
            path |-> <<"arg">>],
           [message |-> <<"Fields ", "field2", " and ", "field1", " must be equal">>,
            path |-> <<"arg">>]>>

\* C19: in a wrapped resolver's invocation, no scalar rule is among the rules run on a
\* visited list, and at every visited non-null leaf that is an item of a list, at
\* whatever depth, the reported violations are those of the failing scalar rules of
\* the chain of the list's argument or field, at the item's indexed path.
C19_ScalarRulesRunOnItems ==
    WrappedCall =>
        \A c \in Calls(call.request.args) :
            /\ IsListNode(c)
                  => \A i \in 1..Len(ListValidations(c.validations, c.listDepth)) :
                         ListValidations(c.validations, c.listDepth)[i].target # "scalar"
            /\ (IsScalarNode(c) /\ NestingLevel(c.path) > 0)
                  => ErrorsAt(c.path)
                     = Failing(SelectSeq(ChainAt(c.path), LAMBDA r : r.target = "scalar"),
                               c.value, c.path)

\* startsWith "a" on [String] called with ["b", "b"]: violations at arg[0] and arg[1].
C19_Witness ==
    /\ WrappedCall
    /\ Len(call.request.args) = 1
    /\ FindArgument("arg").dirs = <<startsWithA>>
    /\ call.request.args[1].value = Lst(<<Str(<<"b">>), Str(<<"b">>)>>)
    /\ ReportedErrors
       = <<[message |-> <<"Value must start with '", "a", "'">>, path |-> <<"arg", "[", "0", "]">>],
           [message |-> <<"Value must start with '", "a", "'">>, path |-> <<"arg", "[", "1", "]">>]>>

\* The non-null values of the listed fields of an object are not all equal.
NotAllEqual(names, value) ==
    \E i \in 1..Len(names), j \in 1..Len(names) :
        /\ ~IsNullish(value.f[names[i]]) /\ ~IsNullish(value.f[names[j]])
        /\ value.f[names[i]] # value.f[names[j]]

IsEqualFieldsRule(r) ==
    /\ r.target = "object"
    /\ Has(r.fn.config, "equalFields")
    /\ Len(r.fn.config.equalFields) > 1

\* C20: in a wrapped resolver's invocation, at every visited input object an
\* equalFields rule over two or more fields yields a violation, reported once per
\* such rule at the object's path, iff the non-null values of the listed fields are
\* not all equal.
C20_EqualFieldsIgnoresNulls ==
    WrappedCall =>
        \A c \in Calls(call.request.args) :
            IsObjectNode(c)
                => LET rules == SelectSeq(c.validations \o TypeObjectRules(c), IsEqualFieldsRule)
                   IN  \A i \in 1..Len(rules) :
                           LET message == validate(rules[i].fn, c.value)
                               reported == SelectSeq(ErrorsAt(c.path),
                                                     LAMBDA e : e.message = message)
                           IN  IF NotAllEqual(rules[i].fn.config.equalFields, c.value)
                               THEN /\ message # NoError
                                    /\ Len(reported)
                                       = Cardinality({j \in 1..Len(rules) :
                                                         validate(rules[j].fn, c.value) = message})
                               ELSE message = NoError

IsNumberRule(r) == r.fn.name \in {"validation", "validFloat"}

\* C21: in a wrapped resolver's invocation, a rule with numeric bounds fails on a
\* visited number iff the number is greater than the rule's declared max or less than
\* its declared min, whichever bounds the rule declares; a number within the bounds
\* of every such rule of an only argument lets the original outcome through.
C21_BoundsInclusiveAndIndependent ==
    WrappedCall =>
        \A c \in Calls(call.request.args) :
            (IsScalarNode(c) /\ c.value.k = "n")
                => \A i \in 1..Len(c.validations) :
                       IsNumberRule(c.validations[i])
                           => LET config == c.validations[i].fn.config
                                  outside ==
                                      \/ Has(config, "max") /\ c.value.n > config.max
                                      \/ Has(config, "min") /\ c.value.n < config.min
                              IN  /\ outside <=> validate(c.validations[i].fn, c.value) # NoError
                                  /\ outside => HasErrorAt(c.path)
                                  /\ (~outside /\ Len(c.validations) = 1
                                      /\ Len(call.request.args) = 1)
                                         => /\ Len(call.log) = 1
                                            /\ call.outcome = call.log[1].outcome

\* The least set of types closed under the stated rule: a type that declares a rule
\* (on itself or on a field), or a type one of whose fields has, under its modifiers,
\* another type of the set.
RECURSIVE NeedingValidation(_)
NeedingValidation(S) ==
    LET next == S \cup {T \in DOMAIN schema.types : (FieldTypes(T) \ {T}) \cap S # {}}
    IN  IF next = S THEN S ELSE NeedingValidation(next)

\* C22: once marking has completed, an input-object type is marked iff it carries an
\* object-level rule, or one of its fields carries a rule, or the type of one of its
\* fields, stripped of its modifiers, is another type that needs validation; a type
\* without rules that only refers to itself is unmarked.
C22_MarkedIffNeedsValidation ==
    added =>
        /\ MarkedTypes = NeedingValidation({T \in DOMAIN schema.types : TypeDeclaresRule(T)})
        /\ \A T \in DOMAIN schema.types :
              (~TypeDeclaresRule(T) /\ FieldTypes(T) \subseteq {T}) => T \notin MarkedTypes


\* C23: marking terminates for every schema, mutual references between input-object
\* types included, whether or not a rule is declared: addValidationToSchema never fails
\* with an exhausted call stack.
C23_MarkingTerminates == ~threw

\* The types on a reference cycle through T that passes through another type.
CycleOf(T) ==
    {U \in DOMAIN schema.types :
        U \in ReachableFrom(FieldTypes(T)) /\ T \in ReachableFrom(FieldTypes(U))}

FieldCarriesRule(T) ==
    \E n \in DOMAIN inputFieldExt[T] :
        inputFieldExt[T][n].has /\ Len(inputFieldExt[T][n].validations) > 0

\* C24: when input-object types form a reference cycle and a field of some type on the
\* cycle carries a rule, marking completes and every type on the cycle is marked,
\* whatever the declaration order of the fields.
C24_CycleWithRuleIsMarked ==
    \A T \in DOMAIN schema.types :
        (CycleOf(T) \ {T} # {} /\ \E U \in CycleOf(T) : FieldCarriesRule(U))
            => /\ ~threw
               /\ added => T \in MarkedTypes


OrdersOf(seq) ==
    {[i \in 1..Len(seq) |-> seq[p[i]]] :
        p \in {q \in [1..Len(seq) -> 1..Len(seq)] :
                  \A i \in 1..Len(seq), j \in 1..Len(seq) : q[i] = q[j] => i = j}}

\* The schema with its input-object types, and the fields of each, in every order.
Reorderings ==
    LET names == DOMAIN schema.types
        fieldOrders == {f \in [names -> UNION {OrdersOf(schema.types[t].fields) : t \in names}] :
                           \A t \in names : f[t] \in OrdersOf(schema.types[t].fields)}
    IN  {[schema EXCEPT !.typeOrder = order,
                        !.types = [t \in names |-> [schema.types[t] EXCEPT !.fields = f[t]]]] :
            order \in OrdersOf(schema.typeOrder), f \in fieldOrders}

\* C27: the outcome of marking (the set of marked types, and whether marking completes)
\* is the same for every order of visiting the input-object types and for every order
\* of the fields inside a type.
C27_MarkingIsOrderIndependent ==
    (added \/ threw) =>
        \A sch \in Reorderings :
            LET m == MarkAll(sch, inputFieldExt)
            IN  /\ m.overflow = threw
                /\ ~threw => m.marked = MarkedTypes


\* C25: once marking has completed, a type one of whose fields has, under any nesting
\* of non-null and list modifiers, another input-object type that is marked is marked
\* itself; so in an invocation of a field that has a resolver, every failing scalar
\* rule at a value the arguments lead to is reported at the value's path.
C25_MarkingSeesThroughModifiers ==
    added =>
        /\ \A T \in DOMAIN schema.types :
              \A U \in FieldTypes(T) \ {T} : U \in MarkedTypes => T \in MarkedTypes
        /\ (Done /\ schema.hasResolver) =>
              \A c \in ReferenceCalls(call.request.args) :
                  (IsScalarNode(c) /\ Len(FailingScalarRules(c)) > 0) => HasErrorAt(c.path)


\* The reference validator: validateRecursive, except that the fields of an input
\* object whose own rules pass are always visited.
RECURSIVE ReferenceValidator(_, _, _, _, _)
ReferenceValidator(path, value, type, validations, listDepth) ==
    LET valueType == IF IsNonNull(type) THEN OfType(type) ELSE type IN
    IF IsNullish(value) THEN <<>>
    ELSE IF IsList(valueType) THEN
        LET listErrors == RunValidations(ListValidations(validations, listDepth), value, path)
            RECURSIVE Items(_)
            Items(i) == IF i > Len(value.items) THEN <<>>
                        ELSE ReferenceValidator(ItemPath(path, i - 1), value.items[i],
                                                OfType(valueType), validations, listDepth + 1)
                             \o Items(i + 1)
        IN  ListBranch(listErrors, Items(1))
    ELSE IF IsInputObjectType(schema, valueType) THEN
        LET typeName == valueType[1]
            objectErrors == RunValidations(ObjectValidations(validations, typeName), value, path)
            fields == schema.types[typeName].fields
            RECURSIVE Fields(_)
            Fields(i) == IF i > Len(fields) THEN <<>>
                         ELSE ReferenceValidator(FieldPath(path, fields[i].name),
                                                 value.f[fields[i].name], fields[i].type,
                                                 FieldValidations(typeName, fields[i].name), 0)
                              \o Fields(i + 1)
        IN  ObjectBranch(objectErrors, TRUE, Fields(1))
    ELSE RunValidations(ScalarValidations(validations), value, path)

\* C26: for every argument value of an invocation made after marking, validateRecursive
\* returns the list the reference validator returns: skipping the fields of unmarked
\* types loses no violation.
C26_SkippingLosesNoViolation ==
    (added /\ Done) =>
        \A i \in 1..Len(call.request.args) :
            LET arg == call.request.args[i]
            IN  validateRecursive(<<arg.name>>, arg.value, FindArgument(arg.name).type,
                                  ArgumentValidations(arg.name), 0)
                = ReferenceValidator(<<arg.name>>, arg.value, FindArgument(arg.name).type,
                                     ArgumentValidations(arg.name), 0)


RECURSIVE IsSubsequence(_, _)
IsSubsequence(a, b) ==
    IF a = <<>> THEN TRUE
    ELSE IF b = <<>> THEN FALSE
    ELSE IF Head(a) = Head(b) THEN IsSubsequence(Tail(a), Tail(b))
    ELSE IsSubsequence(a, Tail(b))

\* C28: no step removes, replaces or reorders a rule of a chain: the chain an argument,
\* an input-object field or an input-object type has before the step is a subsequence
\* of the chain it has after it; so the rules compiled by earlier applyDirectiveToSchema
\* invocations survive every later one, in their order.
C28_LaterPassesKeepEarlierRules ==
    [][/\ \A a \in DOMAIN argumentExt.byArg :
             /\ a \in DOMAIN argumentExt'.byArg
             /\ IsSubsequence(argumentExt.byArg[a], argumentExt'.byArg[a])
       /\ \A t \in DOMAIN inputTypeExt :
             /\ IsSubsequence(inputTypeExt[t].validations, inputTypeExt'[t].validations)
             /\ \A n \in DOMAIN inputFieldExt[t] :
                   IsSubsequence(inputFieldExt[t][n].validations,
                                 inputFieldExt'[t][n].validations)]_vars

\* Two passes have run and a chain holds rules of both families.
C28_Witness ==
    /\ Len(applied) = 2
    /\ \E chain \in AllChains :
          \E i \in 1..Len(chain), j \in 1..Len(chain) :
              chain[i].fn.name = applied[1] /\ chain[j].fn.name = applied[2]


IsFieldPath(path) == Len(path) >= 3 /\ path[Len(path) - 1] = "."

BelowField(path) == \E k \in 1..Len(path) : path[k] = "."

\* C29: in a wrapped resolver's invocation, the violations reported at a visited value
\* at or below a field of an input object are exactly those of the failing rules of the
\* field's own chain (for an object, followed by its type's) that target the kind of
\* the value, a list rule counting only if its depth is the number of lists entered
\* since the field, 0 for the field's outermost list: nothing of the enclosing
\* argument's or field's chain is applied, and the depth restarts at the field.
C29_FieldUsesOwnChainAtDepthZero ==
    WrappedCall =>
        \A c \in Calls(call.request.args) :
            (BelowField(c.path) /\ ~IsNullish(c.value))
                => LET chain == ChainAt(c.path)
                       depth == IF IsFieldPath(c.path) THEN 0 ELSE NestingLevel(c.path)
                       rules == IF IsListNode(c)
                                THEN SelectSeq(chain, LAMBDA r : r.target = "list"
                                                                   /\ r.listDepth = depth)
                                ELSE IF IsObjectNode(c)
                                THEN SelectSeq(chain, LAMBDA r : r.target = "object")
                                         \o TypeObjectRules(c)
                                ELSE SelectSeq(chain, LAMBDA r : r.target = "scalar")
                   IN  ErrorsAt(c.path) = Failing(rules, c.value, c.path)

\* A depth-0 list rule fails on the list field of an object that is an item of the
\* argument's list, the argument carrying rules of its own.
C29_Witness ==
    /\ WrappedCall
    /\ \E c \in Calls(call.request.args) :
          /\ IsFieldPath(c.path) /\ IsListNode(c)
          /\ c.path[Len(c.path) - 2] = "]"
          /\ Len(ArgumentValidations(c.path[1])) > 0
          /\ \E i \in 1..Len(ChainAt(c.path)) :
                /\ ChainAt(c.path)[i].target = "list" /\ ChainAt(c.path)[i].listDepth = 0
                /\ validate(ChainAt(c.path)[i].fn, c.value) # NoError
          /\ HasErrorAt(c.path)


====
